---- MODULE Spec2Model ----
(***************************************************************************)
(* PITimer: driver for the three Periodic Interrupt Timer channels of the  *)
(* Kinetis K20 (Teensy 3.0), src/PITimer.cpp.                              *)
(*                                                                         *)
(* Numbers.  TLC's integers are 32-bit signed, so a uint32_t is kept as a  *)
(* pair <<hi, lo>> of 16-bit halves and an IEEE-754 single as a record     *)
(* [s, m, e] of value s * m * 2^e with m = 0 or 2^23 <= m < 2^24.  The     *)
(* exponent is not range-limited: every input used stays far inside the   *)
(* normal range of a float, where that makes no difference.                *)
(***************************************************************************)
EXTENDS Integers, Sequences, FiniteSets, TLC

\* ------------------------------------------------------------- uint32_t

Half == 2^16

U32(n) == <<n \div Half, n % Half>>

U32Lt(a, b) == a[1] < b[1] \/ (a[1] = b[1] /\ a[2] < b[2])

U32Le(a, b) == a = b \/ U32Lt(a, b)

U32Dec(a) ==
    IF a[2] > 0 THEN <<a[1], a[2] - 1>>
    ELSE IF a[1] > 0 THEN <<a[1] - 1, Half - 1>>
    ELSE <<Half - 1, Half - 1>>

U32Inc(a) ==
    IF a[2] < Half - 1 THEN <<a[1], a[2] + 1>>
    ELSE IF a[1] < Half - 1 THEN <<a[1] + 1, 0>>
    ELSE <<0, 0>>

UINT32_MAX == <<Half - 1, Half - 1>>

\* Bus clock in hertz (mk20dx128.h; "for 48 MHz bus").
F_BUS == 48000000

\* Smallest raw value value() lets through.  PITimer.h declares it; the source
\* documents the resulting range as "to 75 kHz", i.e. F_BUS / 75000 - 1 cycles.
valueMin == U32(639)

\* ---------------------------------------------------------------- float

RECURSIVE BitLen(_)
BitLen(n) == IF n = 0 THEN 0 ELSE 1 + BitLen(n \div 2)

Abs(n) == IF n < 0 THEN -n ELSE n

FZero == [s |-> 1, m |-> 0, e |-> 0]

\* Round to nearest, ties to even: mantissa q with `rest` out of 2 * half
\* dropped below it, at exponent e.
F32Pack(s, q, rest, half, e) ==
    LET up == rest > half \/ (rest = half /\ q % 2 = 1)
        q1 == IF up THEN q + 1 ELSE q
    IN  IF q1 = 2^24 THEN [s |-> s, m |-> 2^23, e |-> e + 1]
        ELSE [s |-> s, m |-> q1, e |-> e]

\* The float nearest to n * 2^e, for an integer |n| < 2^31.
F32Nearest(n, e) ==
    LET a == Abs(n)
        s == IF n < 0 THEN -1 ELSE 1
        len == BitLen(a)
    IN  IF a = 0 THEN FZero
        ELSE IF len <= 24 THEN [s |-> s, m |-> a * 2^(24 - len), e |-> e - (24 - len)]
        ELSE LET k == len - 24
             IN  F32Pack(s, a \div 2^k, a % 2^k, 2^(k - 1), e + k)

\* int -> float conversion.
F32OfInt(n) == F32Nearest(n, 0)

\* uint32_t -> float conversion, round to nearest: below 2^31 as for an int,
\* above with the low 8 of the 32 bits rounded away.
F32OfU32(a) ==
    IF a[1] < 2^15 THEN F32OfInt(a[1] * Half + a[2])
    ELSE F32Pack(1, a[1] * 2^8 + a[2] \div 2^8, a[2] % 2^8, 2^7, 8)

\* What a float division by zero leaves: +infinity, written 2^128.
FInf == [s |-> 1, m |-> 2^23, e |-> 105]

\* a * b, correctly rounded: the 48-bit product of the mantissas is built from
\* 12-bit halves as H * 2^24 + L.
F32Mul(a, b) ==
    IF a.m = 0 \/ b.m = 0 THEN FZero
    ELSE
    LET ah == a.m \div 4096
        al == a.m % 4096
        bh == b.m \div 4096
        bl == b.m % 4096
        mid == ah * bl + al * bh
        low == (mid % 4096) * 4096 + al * bl
        L == low % 2^24
        H == ah * bh + mid \div 4096 + low \div 2^24
        s == a.s * b.s
        e == a.e + b.e
    IN  IF H >= 2^23
        THEN F32Pack(s, H, L, 2^23, e + 24)
        ELSE F32Pack(s, 2 * H + L \div 2^23, L % 2^23, 2^22, e + 23)

\* Long division: <<floor(num * 2^k / den), num * 2^k mod den>>, num < den * 2.
RECURSIVE DivBits(_, _, _)
DivBits(num, den, k) ==
    IF k = 0 THEN <<num \div den, num % den>>
    ELSE LET p == DivBits(num, den, k - 1)
             r2 == 2 * p[2]
         IN  IF r2 >= den THEN <<2 * p[1] + 1, r2 - den>> ELSE <<2 * p[1], r2>>

\* a / b, correctly rounded, for finite a and b # 0.
F32Div(a, b) ==
    IF a.m = 0 THEN FZero
    ELSE
    LET k == IF a.m >= b.m THEN 23 ELSE 24
        p == DivBits(a.m, b.m, k)
    IN  F32Pack(a.s * b.s, p[1], 2 * p[2], b.m, a.e - b.e - k)

\* ------------------------------------------------------------- PITimer

\* float PITimer::round(float value) { return floor(value + 0.5); }
\* value + 0.5 is a double sum and is exact for every float below 2^52; the
\* floor is an integer of at most 24 bits or the value itself, so converting
\* it back to float changes nothing.
round(value) ==
    IF value.e >= 0 \/ value.m = 0 THEN value
    ELSE LET k == -value.e
         IN  IF k >= 26 THEN FZero
             ELSE F32OfInt((value.s * value.m + 2^(k - 1)) \div 2^k)

\* The float expression  r - 1  (int 1 converted to float), for an
\* integer-valued r as round() returns.  From 2^30 on the spacing of floats is
\* at least 64 and the difference rounds back to r.
F32SubOne(r) ==
    IF r.m = 0 THEN F32OfInt(-1)
    ELSE IF r.e >= 7 THEN r
    ELSE IF r.e >= 0 THEN F32Nearest(r.s * r.m * 2^(r.e) - 1, 0)
    ELSE F32Nearest(r.s * r.m - 2^(-r.e), r.e)

\* What an out-of-range float -> uint32_t conversion may leave in the
\* destination: the conversion is undefined, any value can result.
ConvUndefined == {U32(0), U32(47999), UINT32_MAX}

\* float -> uint32_t: truncation toward zero when the truncated value is in
\* 0 .. 2^32 - 1, undefined otherwise.
F32ToU32(x) ==
    IF x.m = 0 THEN {U32(0)}
    ELSE IF x.e <= -24 THEN {U32(0)}
    ELSE IF x.s < 0 THEN ConvUndefined
    ELSE IF x.e <= 0 THEN {U32(x.m \div 2^(-x.e))}
    ELSE IF x.e <= 8 THEN {<<x.m \div 2^(16 - x.e), (x.m % 2^(16 - x.e)) * 2^(x.e)>>}
    ELSE ConvUndefined

\* value() without its test for UINT32_MAX.
Clamp_noMaxCheck(newValue) ==
    IF U32Lt(newValue, valueMin) THEN valueMin ELSE newValue

\* value() without its test against valueMin.
Clamp_noMinCheck(newValue) ==
    IF newValue = UINT32_MAX THEN U32Dec(UINT32_MAX) ELSE newValue

\* The range validation of value(uint32_t).
Clamp(newValue) ==
    IF newValue = UINT32_MAX THEN U32Dec(UINT32_MAX)
    ELSE IF U32Lt(newValue, valueMin) THEN valueMin
    ELSE newValue

\* uint32_t newValue = round(F_BUS * newPeriod) - 1;
periodValue(newPeriod) == F32ToU32(F32SubOne(round(F32Mul(F32OfInt(F_BUS), newPeriod))))

\* uint32_t newValue = round(F_BUS / newFrequency) - 1;
frequencyValue(newFrequency) ==
    IF newFrequency.m = 0 THEN ConvUndefined
    ELSE F32ToU32(F32SubOne(round(F32Div(F32OfInt(F_BUS), newFrequency))))

\* ------------------------------------------------------------ the state

\* PITimer0, PITimer1, PITimer2; a PITimer(3) is never defined.
Channels == {0, 1, 2}

NumChannels == Cardinality(Channels)

NULL == "null"

VARIABLES
    built,          \* how many of the static PITimer objects are constructed
    myValue,        \* PITimer::myValue, per object
    isRunning,      \* PITimer::isRunning
    myISR,          \* PITimer::myISR, the registered callback
    SIM_SCGC6_PIT,  \* the PIT clock-gate bit of SIM_SCGC6
    PIT_MCR,        \* module control register
    PIT_LDVAL,      \* reload value register, per channel
    PIT_TCTRL,      \* timer control register: bit 0 TEN, bit 1 TIE
    PIT_TFLG,       \* timer flag register: bit 0 TIF, write 1 to clear
    elapsed,        \* PIT_CVAL is below the value last loaded
    nvicEnabled,    \* the channel's vector is enabled in the NVIC
    nvicPending,    \* the channel's interrupt is pending in the NVIC
    fg,             \* the foreground's call frame; pc = 0 once it has returned
    isr,            \* the dispatcher in flight, id = -1 when none
    halted,         \* stop() has returned and start() was not called since
    calls           \* calls main() has made so far

objVars == <<myValue, isRunning, myISR>>
modVars == <<SIM_SCGC6_PIT, PIT_MCR>>
regVars == <<PIT_LDVAL, PIT_TCTRL, PIT_TFLG, elapsed, nvicEnabled, nvicPending>>
vars == <<built, objVars, modVars, regVars, fg, isr, halted, calls>>

\* The main program makes at most this many calls.
MaxCalls == 2

TEN(ctrl) == ctrl % 2 = 1

TIE(ctrl) == (ctrl \div 2) % 2 = 1

\* The channel's interrupt request line: TIF and TIE.
IrqLine(flag, ctrl) == flag = 1 /\ TIE(ctrl)

\* The countdown runs: module clocked and enabled, channel enabled.
Counting(i) == SIM_SCGC6_PIT /\ PIT_MCR = 0 /\ TEN(PIT_TCTRL[i])

\* A call frame: the member function, the object, the statement to run next,
\* the arguments (newISR, newValue, the float argument), and for reference
\* what isRunning and myISR held when the call was made.
NoFrame ==
    [op |-> "none", id |-> 0, pc |-> 0, cb |-> NULL, v |-> U32(0), x |-> FZero,
     wasRunning |-> FALSE, wasISR |-> NULL]

NoIsr == [id |-> -1, pc |-> 0, cb |-> NULL, acked |-> FALSE]

Init ==
    /\ built = 0
    /\ myValue = [i \in Channels |-> U32(0)]
    /\ isRunning = [i \in Channels |-> FALSE]
    /\ myISR = [i \in Channels |-> NULL]
    /\ SIM_SCGC6_PIT = FALSE
    /\ PIT_MCR = 2
    /\ PIT_LDVAL = [i \in Channels |-> U32(0)]
    /\ PIT_TCTRL = [i \in Channels |-> 0]
    /\ PIT_TFLG = [i \in Channels |-> 0]
    /\ elapsed = [i \in Channels |-> FALSE]
    /\ nvicEnabled = [i \in Channels |-> FALSE]
    /\ nvicPending = [i \in Channels |-> FALSE]
    /\ fg = NoFrame
    /\ isr = NoIsr
    /\ halted = [i \in Channels |-> FALSE]
    /\ calls = 0

\* ------------------------------------------------------- register writes

\* A store to PIT_TCTRLn.  Setting TEN loads the countdown from LDVAL; a store
\* that leaves TEN set leaves the countdown where it is.  The NVIC pends the
\* interrupt on a rising request line, and on a high one while the handler is
\* not active; the pending state is latched.
WriteTCTRL(i, ctrl) ==
    /\ PIT_TCTRL' = [PIT_TCTRL EXCEPT ![i] = ctrl]
    /\ elapsed' = [elapsed EXCEPT ![i] = TEN(ctrl) /\ TEN(PIT_TCTRL[i]) /\ @]
    /\ nvicPending' = [nvicPending EXCEPT ![i] =
           @ \/ (IrqLine(PIT_TFLG[i], ctrl)
                   /\ (~IrqLine(PIT_TFLG[i], PIT_TCTRL[i]) \/ isr.id # i))]
    /\ UNCHANGED <<PIT_LDVAL, PIT_TFLG, nvicEnabled>>

\* writeValue() whose if-chain stores to PIT_LDVAL0 for every myID.
writeValue_channel0(i) ==
    /\ PIT_LDVAL' = [PIT_LDVAL EXCEPT ![0] = myValue[i]]
    /\ UNCHANGED <<PIT_TCTRL, PIT_TFLG, elapsed, nvicEnabled, nvicPending>>

\* void PITimer::writeValue()
writeValue(i) ==
    /\ PIT_LDVAL' = [PIT_LDVAL EXCEPT ![i] = myValue[i]]
    /\ UNCHANGED <<PIT_TCTRL, PIT_TFLG, elapsed, nvicEnabled, nvicPending>>

\* The store of clear(): PIT_TFLGn = 1 clears TIF.
WriteTFLG(i) ==
    /\ PIT_TFLG' = [PIT_TFLG EXCEPT ![i] = 0]
    /\ UNCHANGED <<PIT_LDVAL, PIT_TCTRL, elapsed, nvicEnabled, nvicPending>>

\* ------------------------------------------------------------ the bodies
\* Each member function is the sequence of its statements; the interrupt may
\* be taken between any two of them.

\* start() that arms the channel and its vector before it stores newISR.
start_vectorFirst == <<"PIT_TCTRL = 3", "NVIC_ENABLE_IRQ", "myISR = newISR", "isRunning = true">>

\* start() that arms the timer but leaves the vector alone.
start_noVector == <<"myISR = newISR", "isRunning = true", "PIT_TCTRL = 3">>

start == <<"myISR = newISR", "isRunning = true", "PIT_TCTRL = 3", "NVIC_ENABLE_IRQ">>

\* stop() that forgets the run flag, and stop() that leaves the vector enabled.
stop_keepsFlag == <<"NVIC_DISABLE_IRQ", "PIT_TCTRL = 0">>

stop_keepsVector == <<"isRunning = false", "PIT_TCTRL = 0">>

stop == <<"isRunning = false", "NVIC_DISABLE_IRQ", "PIT_TCTRL = 0">>

reset == <<"PIT_TCTRL = 1", "PIT_TCTRL = 3">>

clear == <<"PIT_TFLG = 1">>

\* value(uint32_t) that goes on to restart the countdown as reset() does.
value_thenReset == <<"myValue = newValue", "writeValue", "PIT_TCTRL = 1", "PIT_TCTRL = 3">>

\* value(uint32_t) that forgets writeValue().
value_noWriteValue == <<"myValue = newValue">>

value == <<"myValue = newValue", "writeValue">>

\* A dispatcher that calls the callback first.
pit_isr_callFirst == <<"myISR", "clear">>

pit_isr == <<"clear", "myISR">>

Body(op) ==
    CASE op = "start" -> start
      [] op = "stop" -> stop
      [] op = "reset" -> reset
      [] op = "clear" -> clear
      [] op \in {"setValue", "setPeriod", "setFrequency"} -> value

\* One statement of a member function of object i, called with frame f.
Exec(st, i, f) ==
    CASE st = "myISR = newISR" ->
           /\ myISR' = [myISR EXCEPT ![i] = f.cb]
           /\ UNCHANGED <<myValue, isRunning, regVars>>
      [] st = "isRunning = true" ->
           /\ isRunning' = [isRunning EXCEPT ![i] = TRUE]
           /\ UNCHANGED <<myValue, myISR, regVars>>
      [] st = "isRunning = false" ->
           /\ isRunning' = [isRunning EXCEPT ![i] = FALSE]
           /\ UNCHANGED <<myValue, myISR, regVars>>
      [] st = "PIT_TCTRL = 3" -> WriteTCTRL(i, 3) /\ UNCHANGED objVars
      [] st = "PIT_TCTRL = 1" -> WriteTCTRL(i, 1) /\ UNCHANGED objVars
      [] st = "PIT_TCTRL = 0" -> WriteTCTRL(i, 0) /\ UNCHANGED objVars
      [] st = "NVIC_ENABLE_IRQ" ->
           /\ nvicEnabled' = [nvicEnabled EXCEPT ![i] = TRUE]
           /\ UNCHANGED <<objVars, PIT_LDVAL, PIT_TCTRL, PIT_TFLG, elapsed, nvicPending>>
      [] st = "NVIC_DISABLE_IRQ" ->
           /\ nvicEnabled' = [nvicEnabled EXCEPT ![i] = FALSE]
           /\ UNCHANGED <<objVars, PIT_LDVAL, PIT_TCTRL, PIT_TFLG, elapsed, nvicPending>>
      [] st = "PIT_TFLG = 1" -> WriteTFLG(i) /\ UNCHANGED objVars
      [] st = "myValue = newValue" ->
           /\ myValue' = [myValue EXCEPT ![i] = Clamp(f.v)]
           /\ UNCHANGED <<isRunning, myISR, regVars>>
      [] st = "writeValue" -> writeValue(i) /\ UNCHANGED objVars

\* ------------------------------------------------------- the foreground

Callbacks == {"cbA", "cbB"}

\* The interrupt is taken as soon as it is pending and enabled, so the
\* foreground runs only while no handler is active or due.
FgReady == isr.id = -1 /\ \A i \in Channels : ~(nvicEnabled[i] /\ nvicPending[i])

\* main() runs after the static constructors; one call at a time.
CanCall == built = NumChannels /\ fg.pc = 0 /\ FgReady /\ calls < MaxCalls

Frame(op, i, cb, v, x) ==
    [op |-> op, id |-> i, pc |-> 1, cb |-> cb, v |-> v, x |-> x,
     wasRunning |-> isRunning[i], wasISR |-> myISR[i]]

\* The statement at f.pc of the call f, and the frame after it.
FgExec(f) ==
    LET body == Body(f.op)
        last == f.pc = Len(body)
    IN  /\ Exec(body[f.pc], f.id, f)
        /\ fg' = [f EXCEPT !.pc = IF last THEN 0 ELSE f.pc + 1]
        /\ halted' = [halted EXCEPT ![f.id] =
               IF f.op = "start" THEN FALSE
               ELSE IF f.op = "stop" /\ last THEN TRUE
               ELSE @]
        /\ calls' = IF fg.pc = 0 THEN calls + 1 ELSE calls
        /\ UNCHANGED <<built, modVars, isr>>

\* A constructor that stores the value without calling writeValue().
Construct_noWriteValue(i) ==
    /\ built = i
    /\ built' = i + 1
    /\ isRunning' = [isRunning EXCEPT ![i] = FALSE]
    /\ SIM_SCGC6_PIT' = TRUE
    /\ PIT_MCR' = 0
    /\ myValue' = [myValue EXCEPT ![i] = Clamp(U32(F_BUS))]
    /\ UNCHANGED <<myISR, PIT_LDVAL, PIT_TCTRL, PIT_TFLG, elapsed, nvicEnabled,
                   nvicPending, fg, isr, halted, calls>>

\* PITimer::PITimer(uint8_t timerID), run for PITimer0, PITimer1, PITimer2 in
\* the order of their definitions, before main() and with no vector enabled.
Construct(i) ==
    /\ built = i
    /\ built' = i + 1
    /\ isRunning' = [isRunning EXCEPT ![i] = FALSE]
    /\ SIM_SCGC6_PIT' = TRUE
    /\ PIT_MCR' = 0
    /\ myValue' = [myValue EXCEPT ![i] = Clamp(U32(F_BUS))]
    /\ PIT_LDVAL' = [PIT_LDVAL EXCEPT ![i] = Clamp(U32(F_BUS))]
    /\ UNCHANGED <<myISR, PIT_TCTRL, PIT_TFLG, elapsed, nvicEnabled, nvicPending,
                   fg, isr, halted, calls>>

Start(i, newISR) == CanCall /\ FgExec(Frame("start", i, newISR, U32(0), FZero))

Stop(i) == CanCall /\ FgExec(Frame("stop", i, NULL, U32(0), FZero))

Reset(i) == CanCall /\ FgExec(Frame("reset", i, NULL, U32(0), FZero))

Clear(i) == CanCall /\ FgExec(Frame("clear", i, NULL, U32(0), FZero))

\* void PITimer::value(uint32_t newValue)
SetValue(i, newValue) == CanCall /\ FgExec(Frame("setValue", i, NULL, newValue, FZero))

\* void PITimer::period(float newPeriod)
SetPeriod(i, newPeriod) ==
    /\ CanCall
    /\ \E newValue \in periodValue(newPeriod) :
           FgExec(Frame("setPeriod", i, NULL, newValue, newPeriod))

\* void PITimer::frequency(float newFrequency)
SetFrequency(i, newFrequency) ==
    /\ CanCall
    /\ \E newValue \in frequencyValue(newFrequency) :
           FgExec(Frame("setFrequency", i, NULL, newValue, newFrequency))

\* The next statement of the call in progress.
FgStep == FgReady /\ fg.pc > 0 /\ FgExec(fg)

\* ---------------------------------------------------------- the hardware

\* The countdown leaves its reload value.
Tick(i) ==
    /\ Counting(i) /\ ~elapsed[i]
    /\ elapsed' = [elapsed EXCEPT ![i] = TRUE]
    /\ UNCHANGED <<built, objVars, modVars, PIT_LDVAL, PIT_TCTRL, PIT_TFLG,
                   nvicEnabled, nvicPending, fg, isr, halted, calls>>

\* The countdown reaches zero: TIF is set and the countdown reloads.
Fire(i) ==
    /\ Counting(i) /\ elapsed[i]
    /\ elapsed' = [elapsed EXCEPT ![i] = FALSE]
    /\ PIT_TFLG' = [PIT_TFLG EXCEPT ![i] = 1]
    /\ nvicPending' = [nvicPending EXCEPT ![i] =
           @ \/ (TIE(PIT_TCTRL[i]) /\ (PIT_TFLG[i] = 0 \/ isr.id # i))]
    /\ UNCHANGED <<built, objVars, modVars, PIT_LDVAL, PIT_TCTRL, nvicEnabled,
                   fg, isr, halted, calls>>

\* ------------------------------------------------------- pitN_isr

\* The NVIC enters pit<i>_isr; entry clears the pending state.
IsrEnter(i) ==
    /\ isr.id = -1
    /\ nvicEnabled[i] /\ nvicPending[i]
    /\ isr' = [id |-> i, pc |-> 1, cb |-> NULL, acked |-> FALSE]
    /\ nvicPending' = [nvicPending EXCEPT ![i] = FALSE]
    /\ UNCHANGED <<built, objVars, modVars, PIT_LDVAL, PIT_TCTRL, PIT_TFLG, elapsed,
                   nvicEnabled, fg, halted, calls>>

\* The handler after its statement at isr.pc; on return the NVIC pends the
\* interrupt again if its request line is still high.
IsrAfter(flag, acked) ==
    IF isr.pc = Len(pit_isr)
    THEN /\ isr' = NoIsr
         /\ nvicPending' = [nvicPending EXCEPT ![isr.id] =
                @ \/ IrqLine(flag, PIT_TCTRL[isr.id])]
    ELSE /\ isr' = [isr EXCEPT !.pc = @ + 1, !.cb = NULL, !.acked = acked]
         /\ UNCHANGED nvicPending

\* PITimerN.clear();
IsrClear ==
    /\ isr.id # -1 /\ isr.cb = NULL
    /\ pit_isr[isr.pc] = "clear"
    /\ Exec(clear[1], isr.id, NoFrame)
    /\ IsrAfter(0, TRUE)
    /\ UNCHANGED <<built, modVars, fg, halted, calls>>

\* PITimerN.myISR();  the call through the stored pointer.  A null pointer
\* faults and nothing runs after it.
IsrCall ==
    /\ isr.id # -1 /\ isr.cb = NULL
    /\ pit_isr[isr.pc] = "myISR"
    /\ isr' = [isr EXCEPT !.cb = IF myISR[isr.id] = NULL THEN "fault" ELSE myISR[isr.id]]
    /\ UNCHANGED <<built, objVars, modVars, regVars, fg, halted, calls>>

\* The callback returns.
CallbackReturn ==
    /\ isr.id # -1 /\ isr.cb \in Callbacks
    /\ IsrAfter(PIT_TFLG[isr.id], isr.acked)
    /\ UNCHANGED <<built, objVars, modVars, PIT_LDVAL, PIT_TCTRL, PIT_TFLG, elapsed,
                   nvicEnabled, fg, halted, calls>>

\* ------------------------------------------------------ specifications

F32(n, e) == F32Nearest(n, e)

LifeValues == {U32(0), UINT32_MAX}

LifePeriods == {F32(128, 0)}

LifeFrequencies == {F32(1000, 0)}

Next ==
    \/ \E i \in Channels : Construct(i)
    \/ \E i \in Channels, cb \in Callbacks : Start(i, cb)
    \/ \E i \in Channels : Stop(i)
    \/ \E i \in Channels : Reset(i)
    \/ \E i \in Channels : Clear(i)
    \/ \E i \in Channels, v \in LifeValues : SetValue(i, v)
    \/ \E i \in Channels, s \in LifePeriods : SetPeriod(i, s)
    \/ \E i \in Channels, hz \in LifeFrequencies : SetFrequency(i, hz)
    \/ FgStep
    \/ \E i \in Channels : Tick(i)
    \/ \E i \in Channels : Fire(i)
    \/ \E i \in Channels : IsrEnter(i)
    \/ IsrClear
    \/ IsrCall
    \/ CallbackReturn

Spec == Init /\ [][Next]_vars

\* The setters alone, on a wider range of arguments.

ValueInputs ==
    {U32(0), U32Dec(valueMin), valueMin, U32Inc(valueMin), U32(47999),
     U32Dec(U32Dec(UINT32_MAX)), U32Dec(UINT32_MAX), UINT32_MAX}

\* Seconds: 1, 1/4, 1/2048 (23437.5 cycles), 2^-20 (45.8 cycles), 0,
\* 64 (above 2^31 cycles), 128 (above 2^32 cycles).
PeriodInputs ==
    {F32(1, 0), F32(1, -2), F32(1, -11), F32(1, -20), FZero, F32(64, 0), F32(128, 0)}

\* Hertz: 1000, 1, 9, 75000, 2^27 (0.36 cycles), 1/128 (above 2^32 cycles).
FrequencyInputs ==
    {F32(1000, 0), F32(1, 0), F32(9, 0), F32(75000, 0), F32(1, 27), F32(1, -7)}

NextValue ==
    \/ \E i \in Channels : Construct(i)
    \/ \E i \in Channels, v \in ValueInputs : SetValue(i, v)
    \/ \E i \in Channels, s \in PeriodInputs : SetPeriod(i, s)
    \/ \E i \in Channels, hz \in FrequencyInputs : SetFrequency(i, hz)
    \/ FgStep

SpecValue == Init /\ [][NextValue]_vars

\* An expiry under the timing the documentation of start() asks for ("make
\* sure this function can complete within the time allowed"): the handlers
\* are done before the next expiry, so none comes while one is active or due.
FireInTime(i) == FgReady /\ Fire(i)

\* The life cycle with its scheduling.  The countdown of an enabled channel
\* goes on and expires; a dispatcher runs its next statement and a callback
\* returns; an interrupt that is pending and enabled is taken; and main(),
\* which runs between the handlers, gets to its next statement.
Fairness ==
    /\ SF_vars(FgStep)
    /\ WF_vars(IsrClear) /\ WF_vars(IsrCall) /\ WF_vars(CallbackReturn)
    /\ \A i \in Channels :
           WF_vars(Tick(i)) /\ SF_vars(FireInTime(i)) /\ WF_vars(IsrEnter(i))

NextFire ==
    \/ \E i \in Channels : Construct(i)
    \/ \E i \in Channels, cb \in Callbacks : Start(i, cb)
    \/ \E i \in Channels : Stop(i)
    \/ \E i \in Channels : Reset(i)
    \/ \E i \in Channels : Clear(i)
    \/ FgStep
    \/ \E i \in Channels : Tick(i)
    \/ \E i \in Channels : FireInTime(i)
    \/ \E i \in Channels : IsrEnter(i)
    \/ IsrClear
    \/ IsrCall
    \/ CallbackReturn

SpecFire == Init /\ [][NextFire]_vars /\ Fairness

\* ------------------------------------------------------------ the getters

\* uint32_t PITimer::value()
getValue(i) == myValue[i]

\* float PITimer::period():  (value() + 1) / float(F_BUS), the sum in uint32_t.
period(i) == F32Div(F32OfU32(U32Inc(getValue(i))), F32OfInt(F_BUS))

\* float PITimer::frequency():  float(F_BUS) / (value() + 1)
frequency(i) ==
    LET d == F32OfU32(U32Inc(getValue(i)))
    IN  IF d.m = 0 THEN FInf ELSE F32Div(F32OfInt(F_BUS), d)

\* bool PITimer::running()
running(i) == isRunning[i]

\* ---------------------------------------------------------------- claims

\* The call f has returned.
Returned(f) == f.pc = 0 /\ f.op # "none"

\* C1: while a callback of channel i runs, the clear() of the same dispatch
\* has been done, and the callback is the one registered on channel i.
C1_ClearBeforeCallback ==
    isr.cb # NULL => isr.acked /\ isr.cb = myISR[isr.id]

C1_Witness ==
    isr.id \in Channels /\ isr.cb \in Callbacks /\ isr.acked /\ PIT_TFLG[isr.id] = 0

\* C2: every constructed object's raw value lies in valueMin .. UINT32_MAX - 1.
C2_ValueInRange ==
    \A i \in Channels : i < built =>
        U32Le(valueMin, myValue[i]) /\ U32Le(myValue[i], U32Dec(UINT32_MAX))

C2_Witness ==
    /\ Returned(fg) /\ fg.op = "setValue" /\ fg.v = UINT32_MAX
    /\ myValue[fg.id] = U32Dec(UINT32_MAX)
    /\ \E j \in Channels : myValue[j] = valueMin

\* The clamp as the specification words it.
C3_clamp(v) ==
    CASE v = UINT32_MAX -> <<Half - 1, Half - 2>>
      [] v # UINT32_MAX /\ (v[1] = 0 /\ v[2] < 639) -> <<0, 639>>
      [] OTHER -> v

\* C3: after setValue(v) has returned, getValue() is clamp(v), and the reload
\* register holds the same.
C3_SetValueClamps ==
    (Returned(fg) /\ fg.op = "setValue") =>
        /\ myValue[fg.id] = C3_clamp(fg.v)
        /\ (U32Le(valueMin, fg.v) /\ U32Lt(fg.v, U32Dec(UINT32_MAX))
               => myValue[fg.id] = fg.v)
        /\ (fg.v \in {UINT32_MAX, U32Dec(UINT32_MAX)}
               => myValue[fg.id] = U32Dec(UINT32_MAX))
        /\ (U32Lt(fg.v, valueMin) => myValue[fg.id] = valueMin)

C3_Witness ==
    /\ Returned(fg) /\ fg.op = "setValue" /\ fg.v = U32Dec(valueMin)
    /\ myValue[fg.id] = valueMin /\ PIT_LDVAL[fg.id] = valueMin
    /\ \E j \in Channels : myValue[j] = U32Dec(U32Dec(UINT32_MAX))

\* One step, as C4 reads it: only start() sets isRunning and only stop()
\* clears it, each on its own object; reset() and clear() leave it alone.
C4_Step ==
    /\ \A i \in Channels : isRunning'[i] # isRunning[i] =>
           /\ fg' # fg /\ fg'.id = i
           /\ \/ fg'.op = "start" /\ isRunning'[i]
              \/ fg'.op = "stop" /\ ~isRunning'[i]
    /\ (fg' # fg /\ fg'.op \in {"reset", "clear"}) => isRunning' = isRunning

\* C4: Stopped after construction; start() returns with isRunning true and
\* stop() with isRunning false, from either state; nothing else changes it.
C4_RunState ==
    /\ [](/\ (built = NumChannels /\ calls = 0) => \A i \in Channels : ~isRunning[i]
          /\ (Returned(fg) /\ fg.op = "start") => isRunning[fg.id]
          /\ (Returned(fg) /\ fg.op = "stop") => ~isRunning[fg.id]
          /\ (Returned(fg) /\ fg.op \in {"reset", "clear"})
                 => isRunning[fg.id] = fg.wasRunning)
    /\ [][C4_Step]_vars

C4_Witness ==
    /\ Returned(fg) /\ fg.op = "stop" /\ fg.wasRunning /\ ~isRunning[fg.id]
    /\ myISR[fg.id] \in Callbacks /\ halted[fg.id]

\* C5: once stop() has returned on channel i its vector is disabled and its
\* control register is 0 until the next call, and no callback of channel i
\* runs before start() is called on it again.
C5_StopHalts ==
    \A i \in Channels :
        /\ (Returned(fg) /\ fg.op = "stop" /\ fg.id = i /\ isr.id # i)
               => ~nvicEnabled[i] /\ PIT_TCTRL[i] = 0
        /\ halted[i] => ~nvicEnabled[i] /\ ~(isr.id = i /\ isr.cb # NULL)

C5_Witness ==
    /\ Returned(fg) /\ fg.op = "stop" /\ fg.wasRunning
    /\ halted[fg.id] /\ nvicPending[fg.id] /\ PIT_TFLG[fg.id] = 1

\* C6: once start(cb) has returned, whatever the state it was called in, the
\* object is Running with cb registered, the control register is 3 and the
\* vector is enabled, and a callback of that channel that runs is cb.
C6_StartPostState ==
    (Returned(fg) /\ fg.op = "start") =>
        /\ isRunning[fg.id]
        /\ myISR[fg.id] = fg.cb
        /\ PIT_TCTRL[fg.id] = 3 /\ TEN(PIT_TCTRL[fg.id]) /\ TIE(PIT_TCTRL[fg.id])
        /\ nvicEnabled[fg.id]
        /\ (isr.id = fg.id /\ isr.cb # NULL) => isr.cb = fg.cb

C6_Witness ==
    /\ Returned(fg) /\ fg.op = "start"
    /\ fg.wasRunning /\ fg.wasISR \in Callbacks /\ fg.wasISR # fg.cb
    /\ isr.id = fg.id /\ isr.cb = fg.cb

\* C7: between the two stores of reset() on a Running channel the timer is
\* disabled.
C7_ResetDisablesTimer ==
    (fg.op = "reset" /\ fg.pc = 2 /\ isRunning[fg.id]) => ~TEN(PIT_TCTRL[fg.id])

\* C8: after reset() on a Stopped channel the control register is still 0.
C8_ResetStoppedNoEffect ==
    (Returned(fg) /\ fg.op = "reset" /\ ~fg.wasRunning /\ ~isRunning[fg.id]) =>
        /\ PIT_TCTRL[fg.id] = 0
        /\ myISR[fg.id] = fg.wasISR

\* A float m * 2^e with the trailing zero bits of m moved into e.
RECURSIVE Strip(_, _)
Strip(m, e) == IF m % 2 = 0 /\ m > 0 THEN Strip(m \div 2, e + 1) ELSE <<m, e>>

\* floor(F_BUS * x + 1/2) in exact arithmetic, for x >= 0; -1 where it does
\* not fit 31 bits.
C9_cycles(x) ==
    LET p == Strip(x.m, x.e)
        q == Strip(F_BUS, 0)
        n == q[1] * p[1]
        e == q[2] + p[2]
    IN  IF x.m = 0 THEN 0
        ELSE IF e >= 0 THEN (IF BitLen(n) + e <= 31 THEN n * 2^e ELSE -1)
        ELSE IF -e > 30 THEN 0
        ELSE (n + 2^(-e - 1)) \div 2^(-e)

\* C9: setPeriod(s) leaves clamp(floor(F_BUS * s + 1/2) - 1) in the object,
\* here for the periods of 1 .. 2^31 - 1 cycles.
C9_PeriodStored ==
    (Returned(fg) /\ fg.op = "setPeriod" /\ fg.x.s = 1 /\ C9_cycles(fg.x) >= 1) =>
        myValue[fg.id] = C3_clamp(U32(C9_cycles(fg.x) - 1))

\* floor(F_BUS / hz + 1/2) in exact arithmetic, for an integer hz > 0; -1
\* where hz is not one below 2^30.
C10_cycles(hz) ==
    LET h == hz.m * 2^(hz.e)
    IN  IF hz.m > 0 /\ hz.s = 1 /\ hz.e >= 0 /\ hz.e <= 6 THEN (2 * F_BUS + h) \div (2 * h)
        ELSE IF hz.m > 0 /\ hz.s = 1 /\ hz.e < 0 /\ hz.e >= -23 /\ hz.m % 2^(-hz.e) = 0
        THEN (2 * F_BUS + hz.m \div 2^(-hz.e)) \div (2 * (hz.m \div 2^(-hz.e)))
        ELSE -1

\* C10: setFrequency(hz) leaves clamp(floor(F_BUS / hz + 1/2) - 1) in the
\* object, here for the integer frequencies that give at least one cycle.
C10_FrequencyStored ==
    (Returned(fg) /\ fg.op = "setFrequency" /\ C10_cycles(fg.x) >= 1) =>
        myValue[fg.id] = C3_clamp(U32(C10_cycles(fg.x) - 1))

\* getValue() + 1 as a number, not as a uint32_t: 2^32 after UINT32_MAX.
C11_sum(v) ==
    IF v = UINT32_MAX THEN [s |-> 1, m |-> 2^23, e |-> 9]
    ELSE IF v[2] < Half - 1 THEN F32OfU32(<<v[1], v[2] + 1>>)
    ELSE F32OfU32(<<v[1] + 1, 0>>)

\* C11: for every constructed object the sum value() + 1 of the getters does
\* not wrap, so frequency() is F_BUS / (getValue() + 1) and period() is
\* (getValue() + 1) / F_BUS with the sum taken as a number, and the divisor of
\* frequency() is not zero.
C11_GettersNoWrap ==
    \A i \in Channels : i < built =>
        /\ U32Inc(getValue(i)) # U32(0)
        /\ frequency(i) = F32Div(F32OfInt(F_BUS), C11_sum(getValue(i)))
        /\ period(i) = F32Div(C11_sum(getValue(i)), F32OfInt(F_BUS))

C11_Witness ==
    /\ Returned(fg) /\ fg.op = "setPeriod" /\ fg.v = UINT32_MAX
    /\ getValue(fg.id) = U32Dec(UINT32_MAX)
    /\ U32Inc(getValue(fg.id)) = UINT32_MAX
    /\ frequency(fg.id) = F32Div(F32OfInt(F_BUS), [s |-> 1, m |-> 2^23, e |-> 9])
\* What C12 lists of one channel.
C12_channel(j) ==
    <<myValue[j], isRunning[j], myISR[j], PIT_LDVAL[j], PIT_TCTRL[j], PIT_TFLG[j],
      nvicEnabled[j]>>

C12_Step ==
    /\ (fg' # fg \/ calls' # calls) =>
           \A j \in Channels \ {fg'.id} : C12_channel(j)' = C12_channel(j)
    /\ isr' # isr =>
           \A j \in Channels \ {isr.id, isr'.id} : C12_channel(j)' = C12_channel(j)

\* C12: a statement of a member function called on object i, and a step of
\* the dispatcher of channel i, leave the members and registers of every
\* other channel as they are.
C12_ChannelsIndependent == [][C12_Step]_vars

C12_Witness ==
    /\ Returned(fg) /\ fg.op \in {"stop", "reset", "setValue"}
    /\ \E j \in Channels \ {fg.id} :
           /\ isRunning[j] /\ myISR[j] \in Callbacks
           /\ PIT_TCTRL[j] = 3 /\ nvicEnabled[j]
\* C13: from its construction until main() makes its first call, whatever
\* other objects are constructed meanwhile, an object is not running, its
\* value and its reload register are F_BUS, the PIT clock gate is set and
\* PIT_MCR is 0.
C13_Constructed ==
    \A i \in Channels : (i < built /\ calls = 0) =>
        /\ ~running(i)
        /\ getValue(i) = U32(F_BUS) /\ PIT_LDVAL[i] = U32(F_BUS)
        /\ SIM_SCGC6_PIT /\ PIT_MCR = 0

C13_Witness ==
    /\ built = NumChannels /\ calls = 0
    /\ \A i \in Channels : PIT_LDVAL[i] = <<732, 27648>> /\ ~running(i)
    /\ PIT_MCR = 0
Setters == {"setValue", "setPeriod", "setFrequency"}

\* A setter called on object i has not returned yet.
InSetter(i) == fg.op \in Setters /\ fg.id = i /\ fg.pc > 0

C14_Step ==
    \A i \in Channels : PIT_LDVAL'[i] # PIT_LDVAL[i] =>
        \/ built = i /\ built' = i + 1
        \/ fg'.op \in Setters /\ fg'.id = i /\ (fg' # fg \/ calls' # calls)

\* C14: outside a setter the reload register of every constructed object's
\* channel holds the object's value, and only the constructor and the
\* setters of that object ever change the register.
C14_ReloadIsValue ==
    /\ [](\A i \in Channels : (i < built /\ ~InSetter(i)) => PIT_LDVAL[i] = getValue(i))
    /\ [][C14_Step]_vars

C14_Witness ==
    /\ Returned(fg) /\ fg.op = "setFrequency" /\ fg.wasRunning
    /\ getValue(fg.id) = U32(47999) /\ PIT_LDVAL[fg.id] = U32(47999)
    /\ isr.id = fg.id
C15_Step ==
    (fg'.op \in Setters /\ (fg' # fg \/ calls' # calls)) =>
        /\ isRunning' = isRunning /\ myISR' = myISR
        /\ PIT_TCTRL' = PIT_TCTRL /\ PIT_TFLG' = PIT_TFLG
        /\ nvicEnabled' = nvicEnabled /\ nvicPending' = nvicPending
        /\ \A j \in Channels \ {fg'.id} :
               myValue'[j] = myValue[j] /\ PIT_LDVAL'[j] = PIT_LDVAL[j]

\* C15: no statement of value(uint32_t), period(float) or frequency(float)
\* changes anything but the object's value and its reload register, whether
\* the object is running or not.
C15_SetterFrame == [][C15_Step]_vars

C15_Witness ==
    /\ Returned(fg) /\ fg.op = "setPeriod" /\ fg.wasRunning /\ running(fg.id)
    /\ myISR[fg.id] = fg.wasISR /\ fg.wasISR \in Callbacks
    /\ PIT_TCTRL[fg.id] = 3 /\ nvicEnabled[fg.id]
    /\ getValue(fg.id) # U32(F_BUS) /\ PIT_LDVAL[fg.id] = getValue(fg.id)
\* The callback registered on channel i is being run by its dispatcher.
InCallback(i) == isr.id = i /\ isr.cb \in Callbacks /\ isr.cb = myISR[i]

\* C16: while an object stays running, every expiry of its channel is
\* followed by a run of its callback, and an object that stays running for
\* good has its callback run again and again.
C16_Periodic ==
    \A i \in Channels :
        /\ (running(i) /\ PIT_TFLG[i] = 1) ~> (InCallback(i) \/ ~running(i))
        /\ <>[]running(i) => []<>InCallback(i)

C16_Witness ==
    /\ Returned(fg) /\ fg.op = "start" /\ fg.wasRunning
    /\ InCallback(fg.id) /\ isr.cb = fg.cb /\ fg.cb # fg.wasISR
    /\ PIT_TFLG[fg.id] = 0 /\ elapsed[fg.id]
\* C17: period(s) with s >= 0 and frequency(hz) whose rounded cycle count is
\* 0 .. valueMin leave valueMin in the object.
C17_TooShortClamps ==
    /\ (Returned(fg) /\ fg.op = "setPeriod" /\ fg.x.s = 1
            /\ C9_cycles(fg.x) \in 0 .. 639) => getValue(fg.id) = valueMin
    /\ (Returned(fg) /\ fg.op = "setFrequency"
            /\ C10_cycles(fg.x) \in 0 .. 639) => getValue(fg.id) = valueMin
\* C18: a callback of channel i runs only while the object is running.
C18_NoCallbackWhileStopped ==
    \A i \in Channels : (isr.id = i /\ isr.cb \in Callbacks) => running(i)
\* C19: a dispatcher runs, and a vector is enabled, only on a channel whose
\* object holds a callback that start() stored; the call through myISR never
\* goes through the null pointer the object starts with.
C19_NoUnsetCallback ==
    /\ isr.cb # "fault"
    /\ \A i \in Channels :
           (isr.id = i \/ nvicEnabled[i]) => myISR[i] \in Callbacks

C19_Witness ==
    /\ Returned(fg) /\ fg.op = "start" /\ fg.wasISR = NULL /\ calls = MaxCalls
    /\ isr.id = fg.id /\ isr.cb = fg.cb
    /\ ~elapsed[fg.id] /\ PIT_TFLG[fg.id] = 0
\* The statement of start() that arms the channel, on an object that was not
\* running when start() was called.
C20_Step ==
    (fg.op = "start" /\ fg.pc = 3 /\ ~fg.wasRunning /\ fg'.pc = 4) =>
        ~nvicPending'[fg.id] /\ PIT_TFLG'[fg.id] = 0 /\ ~elapsed'[fg.id]

\* C20: when start() arms a stopped channel the countdown begins at the
\* reload value and no flag or pending interrupt of an earlier run is there
\* to be dispatched as soon as the vector is enabled.
C20_NoEarlyDispatch == [][C20_Step]_vars
====
